---- MODULE Spec2Model ----
(***************************************************************************)
(* Model of the exam-text parser of src/app.py (parse_exam_pdf and its     *)
(* helpers, extract_answer_key).                                           *)
(*                                                                         *)
(* Text is modelled as a sequence of characters, every character being a   *)
(* one-element string.  Characters outside ASCII carry an ASCII name:      *)
(*   "JIE"    U+89E3 (the answer tag's character)                          *)
(*   "FCOLON" U+FF1A (full-width colon)                                    *)
(*   "FLP"    U+FF08 (full-width left parenthesis)                         *)
(*   "FRP"    U+FF09 (full-width right parenthesis)                        *)
(*   "DI"     U+7B2C   "YE" U+9801   "GONG" U+5171 (page footer)           *)
(*   "\n"     the newline character                                        *)
(* A text (the argument of parse_exam_pdf) is the sequence of its lines,   *)
(* i.e. the value of text.split("\n").                                     *)
(*                                                                         *)
(* The PDF import mode is modelled next to it: the Questions worksheet is  *)
(* the sequence of its data rows, a row being its question text and rev,   *)
(* which stands for the row's other columns.                               *)
(*                                                                         *)
(* The mock exam mode is modelled as one action per run of the script, a   *)
(* run being caused by a button press or by any other widget event; the    *)
(* session state (quiz_data, quiz_submitted, the radio values) and the     *)
(* Results and Mistakes worksheets are its variables.                      *)
(***************************************************************************)
EXTENDS Integers, Sequences, FiniteSets, TLC

VARIABLES lines, idx, state, current_q, last_opt, questions, pc,
          keyIn, keyOut, kpc,
          sheet, old_df, new_df, imports, outcome,
          quiz_data, quiz_submitted, user_answers, results, mistakes, runs,
          attempts

vars == <<lines, idx, state, current_q, last_opt, questions, pc,
          keyIn, keyOut, kpc, sheet, old_df, new_df, imports, outcome,
          quiz_data, quiz_submitted, user_answers, results, mistakes, runs,
          attempts>>

parserVars == <<lines, idx, state, current_q, last_opt, questions, pc>>

keyVars == <<keyIn, keyOut, kpc>>

importVars == <<sheet, old_df, new_df, imports, outcome>>

quizVars == <<quiz_data, quiz_submitted, user_answers, results, mistakes, runs,
              attempts>>

\* the session state of a new session and empty Results and Mistakes sheets
NoQuiz ==
    /\ quiz_data = <<>>
    /\ quiz_submitted = FALSE
    /\ user_answers = <<>>
    /\ results = <<>>
    /\ mistakes = <<>>
    /\ runs = 0
    /\ attempts = 0

(***************************************************************************)
(* Bounds                                                                  *)
(***************************************************************************)
MaxLines == 4

MaxKeyLen == 3

MaxImports == 2

MaxRows == 2

\* questions in the bank that pass the mock exam filter
BankSize == 2

\* runs of the script in the mock exam mode
MaxRuns == 4

(***************************************************************************)
(* Character classes of the regular expressions                            *)
(***************************************************************************)
Digit == {"0", "1", "2", "3", "4", "5", "6", "7", "8", "9"}

WhiteSpace == {" ", "\t"}

OpenParen == {"(", "FLP"}

CloseParen == {")", "FRP"}

OptDigit == {"1", "2", "3", "4"}

KeyChar == {"1", "2", "3", "4", "A", "B", "C", "D", "a", "b", "c", "d"}

SetMin(S) == CHOOSE x \in S : \A y \in S : x <= y

SetMax(S) == CHOOSE x \in S : \A y \in S : x >= y

\* str.strip(): the text without its leading and trailing white space
strip(s) ==
    LET ns == {k \in 1..Len(s) : s[k] \notin WhiteSpace}
    IN  IF ns = {} THEN <<>> ELSE SubSeq(s, SetMin(ns), SetMax(ns))

\* the first position >= k of s whose character is not in class C
\* (Len(s)+1 when there is none): the end of a greedy C* started at k
SkipClass(s, k, C) ==
    LET stop == {j \in k..Len(s) : s[j] \notin C}
    IN  IF stop = {} THEN Len(s) + 1 ELSE SetMin(stop)

CharAt(s, k) == IF k >= 1 /\ k <= Len(s) THEN s[k] ELSE "EOS"

\* "sep".join(parts)
RECURSIVE join(_, _)
join(sep, parts) ==
    IF parts = <<>> THEN <<>>
    ELSE IF Len(parts) = 1 THEN parts[1]
    ELSE parts[1] \o sep \o join(sep, Tail(parts))

(***************************************************************************)
(* extract_answer_key                                                      *)
(***************************************************************************)
upper(c) ==
    CASE c = "a" -> "A" [] c = "b" -> "B" [] c = "c" -> "C" [] c = "d" -> "D"
      [] OTHER -> c

mapping(val) ==
    CASE val = "1" -> "A" [] val = "2" -> "B" [] val = "3" -> "C"
      [] val = "4" -> "D" [] OTHER -> val

\* extract_answer_key without the .upper() of the matched character
extract_answer_key_no_upper(text) ==
    LET t == strip(text)
        k == IF CharAt(t, 1) \in OpenParen THEN 2 ELSE 1
    IN  IF CharAt(t, k) \in KeyChar THEN <<mapping(t[k])>> ELSE <<>>

\* re.match(r"^[\(FLP]?([1-4A-Da-d])[\)FRP\.]?", text.strip()):
\* an optional opening parenthesis, then the key character; nothing is
\* required of what follows.  Returns <<>> (the empty string) or <<key>>.
extract_answer_key(text) ==
    LET t == strip(text)
        k == IF CharAt(t, 1) \in OpenParen THEN 2 ELSE 1
    IN  IF CharAt(t, k) \in KeyChar THEN <<mapping(upper(t[k]))>> ELSE <<>>

(***************************************************************************)
(* Line classifiers of parse_exam_pdf                                      *)
(***************************************************************************)
\* is_footer with \d in place of \d+ (one-digit page numbers only)
is_footer_one_digit(s) ==
    LET t == strip(s)
    IN  /\ CharAt(t, 1) = "DI"
        /\ CharAt(t, 2) \in Digit
        /\ CharAt(t, 3) = "YE"
        /\ CharAt(t, 4) = "/"
        /\ CharAt(t, 5) = "GONG"
        /\ CharAt(t, 6) \in Digit
        /\ CharAt(t, 7) = "YE"

\* re.match(r"^DI\s*\d+\s*YE/GONG\s*\d+\s*YE", s.strip())
is_footer(s) ==
    LET t  == strip(s)
        a1 == SkipClass(t, 2, WhiteSpace)
        a2 == SkipClass(t, a1, Digit)
        a3 == SkipClass(t, a2, WhiteSpace)
        b1 == SkipClass(t, a3 + 3, WhiteSpace)
        b2 == SkipClass(t, b1, Digit)
        b3 == SkipClass(t, b2, WhiteSpace)
    IN  /\ CharAt(t, 1) = "DI"
        /\ a2 > a1
        /\ CharAt(t, a3) = "YE"
        /\ CharAt(t, a3 + 1) = "/"
        /\ CharAt(t, a3 + 2) = "GONG"
        /\ b2 > b1
        /\ CharAt(t, b3) = "YE"

\* re.match(r"^\d+[\.\s]", line)
is_question_start(line) ==
    LET e == SkipClass(line, 1, Digit)
    IN  e > 1 /\ CharAt(line, e) \in ({"."} \cup WhiteSpace)

\* the length of a match of \[JIE(?:[:FCOLON])?\] at position k, 0 if none
TagLenAt(s, k) ==
    IF CharAt(s, k) = "[" /\ CharAt(s, k + 1) = "JIE"
    THEN IF CharAt(s, k + 2) = "]" THEN 3
         ELSE IF CharAt(s, k + 2) \in {":", "FCOLON"} /\ CharAt(s, k + 3) = "]"
              THEN 4 ELSE 0
    ELSE 0

TagStarts(s) == {k \in 1..Len(s) : TagLenAt(s, k) > 0}

\* re.search(r"\[JIE(?:[:FCOLON])?\]", s)
is_answer_marker(s) == TagStarts(s) # {}

\* re.sub(r".*\[JIE(?:[:FCOLON])?\]\s*", "", line).strip(): the greedy .*
\* runs to the last tag of the line; what is left is the text after it
after_marker(line) ==
    LET k == SetMax(TagStarts(line))
    IN  strip(SubSeq(line, k + TagLenAt(line, k), Len(line)))

\* the start positions of the matches of [FLP(]([1-4])[FRP)]
OptionHits(s) ==
    {k \in 1..Len(s) : /\ CharAt(s, k) \in OpenParen
                       /\ CharAt(s, k + 1) \in OptDigit
                       /\ CharAt(s, k + 2) \in CloseParen}

\* split_options_anywhere keeping a digit's first chunk instead of its last
split_options_first_wins(s) ==
    LET hits == OptionHits(s)
        found == {s[k + 1] : k \in hits}
        chunk(k) ==
            LET later == {j \in hits : j > k}
                end == IF later = {} THEN Len(s) ELSE SetMin(later) - 1
            IN  strip(SubSeq(s, k, end))
    IN  [n \in found |-> chunk(SetMin({k \in hits : s[k + 1] = n}))]

\* split_options_anywhere with the marker cut off the chunk
split_options_strip_marker(s) ==
    LET hits == OptionHits(s)
        found == {s[k + 1] : k \in hits}
        chunk(k) ==
            LET later == {j \in hits : j > k}
                end == IF later = {} THEN Len(s) ELSE SetMin(later) - 1
            IN  strip(SubSeq(s, k + 3, end))
    IN  [n \in found |-> chunk(SetMax({k \in hits : s[k + 1] = n}))]

\* split_options_anywhere: a function from the digits found to their chunk;
\* a digit found twice keeps the chunk of its last occurrence (out[n] = chunk)
split_options_anywhere(s) ==
    LET hits == OptionHits(s)
        found == {s[k + 1] : k \in hits}
        chunk(k) ==
            LET later == {j \in hits : j > k}
                end == IF later = {} THEN Len(s) ELSE SetMin(later) - 1
            IN  strip(SubSeq(s, k, end))
    IN  [n \in found |-> chunk(SetMax({k \in hits : s[k + 1] = n}))]

(***************************************************************************)
(* Question records                                                        *)
(***************************************************************************)
None == [none |-> TRUE]

OptionFields == <<"option_A", "option_B", "option_C", "option_D">>

\* a new question that starts with a default answer key
new_question_default_answer(line) ==
    [question |-> line,
     option_A |-> <<>>, option_B |-> <<>>, option_C |-> <<>>, option_D |-> <<>>,
     correct_answer |-> <<"A">>, explanation |-> <<>>, topic |-> <<>>,
     type |-> "choice"]

new_question(line) ==
    [question |-> line,
     option_A |-> <<>>, option_B |-> <<>>, option_C |-> <<>>, option_D |-> <<>>,
     correct_answer |-> <<>>, explanation |-> <<>>, topic |-> <<>>,
     type |-> "choice"]

\* the fields named by OptionFields that are truthy, in slot order
PopulatedOptions(q) ==
    LET F(k) == q[OptionFields[k]]
    IN  (IF F(1) # <<>> THEN <<F(1)>> ELSE <<>>) \o
        (IF F(2) # <<>> THEN <<F(2)>> ELSE <<>>) \o
        (IF F(3) # <<>> THEN <<F(3)>> ELSE <<>>) \o
        (IF F(4) # <<>> THEN <<F(4)>> ELSE <<>>)

NonEmptyCount(q) ==
    Cardinality({k \in 1..4 : strip(q[OptionFields[k]]) # <<>>})

\* finalize_question without the reset of correct_answer for an essay
finalize_question_keeps_answer(q) ==
    IF NonEmptyCount(q) < 3
    THEN LET extra == PopulatedOptions(q)
             expl == IF extra # <<>> /\ q.explanation = <<>>
                     THEN join(<<"\n">>, extra) ELSE q.explanation
         IN  [q EXCEPT !.type = "essay", !.explanation = expl,
                       !.option_A = <<>>, !.option_B = <<>>,
                       !.option_C = <<>>, !.option_D = <<>>]
    ELSE [q EXCEPT !.type = "choice"]

finalize_question(q) ==
    IF NonEmptyCount(q) < 3
    THEN LET extra == PopulatedOptions(q)
             expl == IF extra # <<>> /\ q.explanation = <<>>
                     THEN join(<<"\n">>, extra) ELSE q.explanation
         IN  [q EXCEPT !.type = "essay", !.explanation = expl,
                       !.option_A = <<>>, !.option_B = <<>>,
                       !.option_C = <<>>, !.option_D = <<>>,
                       !.correct_answer = <<>>]
    ELSE [q EXCEPT !.type = "choice"]

(***************************************************************************)
(* The loop body of parse_exam_pdf.  A parser state ps is the record of    *)
(* the loop's variables: state, current_q, last_opt, questions.            *)
(***************************************************************************)
\* NewQuestion that puts the finished question at the front of the output
NewQuestion_prepends(ps, line) ==
    [state |-> "READING_Q",
     current_q |-> new_question(line),
     last_opt |-> "None",
     questions |-> IF ps.current_q # None
                   THEN <<finalize_question(ps.current_q)>> \o ps.questions
                   ELSE ps.questions]

\* a question-number line: emit the current question, open a new one
NewQuestion(ps, line) ==
    [state |-> "READING_Q",
     current_q |-> new_question(line),
     last_opt |-> "None",
     questions |-> IF ps.current_q # None
                   THEN Append(ps.questions, finalize_question(ps.current_q))
                   ELSE ps.questions]

\* AnswerMarker that keeps the text after the tag out of the explanation
AnswerMarker_drops_after(ps, line) ==
    LET after == after_marker(line)
        ans == extract_answer_key(after)
        q == ps.current_q
    IN  IF after # <<>>
        THEN [ps EXCEPT
                !.current_q =
                    [q EXCEPT !.correct_answer =
                                  IF ans # <<>> THEN ans ELSE q.correct_answer],
                !.state = "READING_EXPL",
                !.last_opt = "None"]
        ELSE [ps EXCEPT !.state = "WAITING_FOR_ANS", !.last_opt = "None"]

\* a line containing the answer tag
AnswerMarker(ps, line) ==
    LET after == after_marker(line)
        ans == extract_answer_key(after)
        q == ps.current_q
    IN  IF after # <<>>
        THEN [ps EXCEPT
                !.current_q =
                    [q EXCEPT !.correct_answer =
                                  IF ans # <<>> THEN ans ELSE q.correct_answer,
                              !.explanation = q.explanation \o after \o <<"\n">>],
                !.state = "READING_EXPL",
                !.last_opt = "None"]
        ELSE [ps EXCEPT !.state = "WAITING_FOR_ANS", !.last_opt = "None"]

\* WaitingForAns that keeps the answer line out of the explanation
WaitingForAns_no_append(ps, line) ==
    LET ans == extract_answer_key(line)
        q == ps.current_q
    IN  [ps EXCEPT
            !.current_q =
                [q EXCEPT !.correct_answer =
                              IF ans # <<>> /\ q.correct_answer = <<>>
                              THEN ans ELSE q.correct_answer],
            !.state = "READING_EXPL"]

\* the line after a tag that had no trailing text
WaitingForAns(ps, line) ==
    LET ans == extract_answer_key(line)
        q == ps.current_q
    IN  [ps EXCEPT
            !.current_q =
                [q EXCEPT !.correct_answer =
                              IF ans # <<>> /\ q.correct_answer = <<>>
                              THEN ans ELSE q.correct_answer,
                          !.explanation = q.explanation \o line \o <<"\n">>],
            !.state = "READING_EXPL"]

\* StoreOptions that does not record which option is open
StoreOptions_no_last_opt(ps, opts) ==
    LET q == ps.current_q
        has(n) == n \in DOMAIN opts
    IN  [ps EXCEPT
            !.current_q =
                [q EXCEPT !.option_A = IF has("1") THEN opts["1"] ELSE q.option_A,
                          !.option_B = IF has("2") THEN opts["2"] ELSE q.option_B,
                          !.option_C = IF has("3") THEN opts["3"] ELSE q.option_C,
                          !.option_D = IF has("4") THEN opts["4"] ELSE q.option_D]]

\* StoreOptions that adds a chunk to the value its slot already has
StoreOptions_appends(ps, opts) ==
    LET q == ps.current_q
        has(n) == n \in DOMAIN opts
        add(old, n) == IF has(n) THEN strip(old \o <<" ">> \o opts[n]) ELSE old
    IN  [ps EXCEPT
            !.current_q =
                [q EXCEPT !.option_A = add(q.option_A, "1"),
                          !.option_B = add(q.option_B, "2"),
                          !.option_C = add(q.option_C, "3"),
                          !.option_D = add(q.option_D, "4")],
            !.last_opt = IF has("4") THEN "option_D"
                         ELSE IF has("3") THEN "option_C"
                         ELSE IF has("2") THEN "option_B"
                         ELSE "option_A"]

\* the options of a line are stored slot by slot, "1" to "4"; last_opt is
\* the last slot assigned in that order
StoreOptions(ps, opts) ==
    LET q == ps.current_q
        has(n) == n \in DOMAIN opts
    IN  [ps EXCEPT
            !.current_q =
                [q EXCEPT !.option_A = IF has("1") THEN opts["1"] ELSE q.option_A,
                          !.option_B = IF has("2") THEN opts["2"] ELSE q.option_B,
                          !.option_C = IF has("3") THEN opts["3"] ELSE q.option_C,
                          !.option_D = IF has("4") THEN opts["4"] ELSE q.option_D],
            !.last_opt = IF has("4") THEN "option_D"
                         ELSE IF has("3") THEN "option_C"
                         ELSE IF has("2") THEN "option_B"
                         ELSE "option_A"]

\* state READING_OPT: option markers, else a continuation of the last
\* option, else (no option open) the line falls through and is dropped
ReadingOpt(ps, line) ==
    LET opts == split_options_anywhere(line)
        q == ps.current_q
    IN  IF DOMAIN opts # {}
        THEN StoreOptions(ps, opts)
        ELSE IF ps.last_opt # "None"
        THEN [ps EXCEPT !.current_q =
                 [q EXCEPT ![ps.last_opt] = strip(q[ps.last_opt] \o <<" ">> \o line)]]
        ELSE ps

\* ReadingQ that leaves the stem only on a line with two or more options
ReadingQ_two_markers(ps, line) ==
    IF Cardinality(DOMAIN split_options_anywhere(line)) >= 2
    THEN ReadingOpt([ps EXCEPT !.state = "READING_OPT"], line)
    ELSE [ps EXCEPT !.current_q.question = ps.current_q.question \o <<" ">> \o line]

\* state READING_Q: the stem grows until a line carries an option marker
ReadingQ(ps, line) ==
    IF DOMAIN split_options_anywhere(line) # {}
    THEN ReadingOpt([ps EXCEPT !.state = "READING_OPT"], line)
    ELSE [ps EXCEPT !.current_q.question = ps.current_q.question \o <<" ">> \o line]

\* ReadingExpl that takes a line with option markers as an option line
ReadingExpl_reopens_options(ps, line) ==
    LET ans == extract_answer_key(line)
        q == ps.current_q
    IN  IF DOMAIN split_options_anywhere(line) # {}
        THEN StoreOptions([ps EXCEPT !.state = "READING_OPT"],
                          split_options_anywhere(line))
        ELSE [ps EXCEPT
                !.current_q =
                    [q EXCEPT !.correct_answer =
                                  IF q.correct_answer = <<>> /\ ans # <<>>
                                  THEN ans ELSE q.correct_answer,
                              !.explanation = q.explanation \o line \o <<"\n">>]]

\* ReadingExpl that never looks for an answer key
ReadingExpl_no_recovery(ps, line) ==
    [ps EXCEPT !.current_q.explanation =
                   ps.current_q.explanation \o line \o <<"\n">>]

\* state READING_EXPL
ReadingExpl(ps, line) ==
    LET ans == extract_answer_key(line)
        q == ps.current_q
    IN  [ps EXCEPT
            !.current_q =
                [q EXCEPT !.correct_answer =
                              IF q.correct_answer = <<>> /\ ans # <<>>
                              THEN ans ELSE q.correct_answer,
                          !.explanation = q.explanation \o line \o <<"\n">>]]

\* one iteration that tests for the answer tag before the question start
Step_marker_first(ps, raw) ==
    LET line == strip(raw)
    IN  IF line = <<>> \/ is_footer(line) THEN ps
        ELSE IF ps.current_q # None /\ is_answer_marker(line)
        THEN AnswerMarker(ps, line)
        ELSE IF is_question_start(line) THEN NewQuestion(ps, line)
        ELSE IF ps.current_q = None THEN ps
        ELSE IF ps.state = "WAITING_FOR_ANS" THEN WaitingForAns(ps, line)
        ELSE IF ps.state = "READING_Q" THEN ReadingQ(ps, line)
        ELSE IF ps.state = "READING_OPT" THEN ReadingOpt(ps, line)
        ELSE IF ps.state = "READING_EXPL" THEN ReadingExpl(ps, line)
        ELSE ps

\* one iteration that looks for the answer tag only while the stem or the
\* options are read
Step_marker_by_state(ps, raw) ==
    LET line == strip(raw)
    IN  IF line = <<>> \/ is_footer(line) THEN ps
        ELSE IF is_question_start(line) THEN NewQuestion(ps, line)
        ELSE IF ps.current_q = None THEN ps
        ELSE IF is_answer_marker(line)
                /\ ps.state \in {"READING_Q", "READING_OPT"}
        THEN AnswerMarker(ps, line)
        ELSE IF ps.state = "WAITING_FOR_ANS" THEN WaitingForAns(ps, line)
        ELSE IF ps.state = "READING_Q" THEN ReadingQ(ps, line)
        ELSE IF ps.state = "READING_OPT" THEN ReadingOpt(ps, line)
        ELSE IF ps.state = "READING_EXPL" THEN ReadingExpl(ps, line)
        ELSE ps

\* one iteration of "for raw in lines"
Step(ps, raw) ==
    LET line == strip(raw)
    IN  IF line = <<>> \/ is_footer(line) THEN ps
        ELSE IF is_question_start(line) THEN NewQuestion(ps, line)
        ELSE IF ps.current_q = None THEN ps
        ELSE IF is_answer_marker(line) THEN AnswerMarker(ps, line)
        ELSE IF ps.state = "WAITING_FOR_ANS" THEN WaitingForAns(ps, line)
        ELSE IF ps.state = "READING_Q" THEN ReadingQ(ps, line)
        ELSE IF ps.state = "READING_OPT" THEN ReadingOpt(ps, line)
        ELSE IF ps.state = "READING_EXPL" THEN ReadingExpl(ps, line)
        ELSE ps

\* the end of parse_exam_pdf without the final flush
EndOfInput_no_flush(cq, qs) == qs

\* after the loop: the question in progress is emitted
EndOfInput(cq, qs) ==
    IF cq # None THEN Append(qs, finalize_question(cq)) ELSE qs

(***************************************************************************)
(* Inputs                                                                  *)
(***************************************************************************)
LQ == <<"1", ".", "Q">>

LText == <<"x">>

LKey == <<"2">>

LBlank == <<" ">>

LFooter == <<"DI", "3", "YE", "/", "GONG", "1", "0", "YE">>

LPacked == <<"(", "1", ")", "A", " ", "(", "2", ")", "B", " ",
             "(", "3", ")", "C", " ", "(", "4", ")", "D">>

LDup == <<"(", "1", ")", "A", " ", "FLP", "1", "FRP", "B">>

LTag == <<"[", "JIE", "]">>

LTagKey1 == <<"[", "JIE", ":", "]", "(", "1", ")">>

LTagKey2 == <<"[", "JIE", ":", "]", " ", "(", "2", ")">>

LineSet == {LQ, LText, LKey, LBlank, LFooter, LPacked, LDup,
            LTag, LTagKey1, LTagKey2}

\* the scenarios of the specification's section 8, line by line
ScenarioA ==
    << <<"1", ".", " ", "W", "h", "a", "t", " ", "i", "s", " ", "X", "?">>,
       <<"(", "1", ")", "A">>, <<"(", "2", ")", "B">>,
       <<"(", "3", ")", "C">>, <<"(", "4", ")", "D">>,
       LTagKey2,
       <<"JIE", "XI", "NEI", "RONG">> >>

ScenarioB == << <<"1", ".", " ", "Q">>, LPacked, LTag, <<"(", "3", ")">>, <<>> >>

ScenarioC ==
    << <<"5", ".", " ", "P", "i", "c", "k">>,
       <<"(", "1", ")", "O", "n", "l", "y">>,
       <<"(", "2", ")", "T", "w", "o">>,
       LTagKey1 >>

ScenarioD == << LQ, LFooter, LText >>

ScenarioE == << <<>> >>

Scenarios == {ScenarioA, ScenarioB, ScenarioC, ScenarioD, ScenarioE}

\* lines of special shape: a question start that also carries an option
\* marker and a tag, option markers out of numeric order, a tag between
\* other text, a footer followed by a tag
LQ2 == <<"2", " ", "(", "1", ")", "a", "[", "JIE", "]", "b">>

LOut == <<"(", "2", ")", "B", " ", "(", "1", ")", "A">>

LTagText == <<"y", "[", "JIE", "FCOLON", "]", "z">>

LFooterTag == LFooter \o <<"[", "JIE", "]", "(", "2", ")">>

\* a line with one option marker
LSingle == <<"(", "3", ")", "C">>

\* a line with three options, option 1 missing
LThree == <<"(", "2", ")", "B", " ", "(", "3", ")", "C", " ", "(", "4", ")", "D">>

SpecialLines == {LQ2, LOut, LTagText, LFooterTag, LSingle, LThree}

\* shorter texts over the wider line set
ExtraTexts ==
    UNION {[1..n -> LineSet \cup SpecialLines] : n \in 1..(MaxLines - 1)}

Texts == UNION {[1..n -> LineSet] : n \in 1..MaxLines} \cup Scenarios
             \cup ExtraTexts

(***************************************************************************)
(* parse_exam_pdf as a state machine                                       *)
(***************************************************************************)
ParserState == [state |-> state, current_q |-> current_q,
                last_opt |-> last_opt, questions |-> questions]

Init ==
    /\ lines \in Texts
    /\ idx = 1
    /\ state = "SEARCH_Q"
    /\ current_q = None
    /\ last_opt = "None"
    /\ questions = <<>>
    /\ pc = "loop"
    /\ keyIn = <<>>
    /\ keyOut = <<>>
    /\ kpc = "idle"
    /\ sheet = <<>>
    /\ old_df = <<>>
    /\ new_df = <<>>
    /\ imports = 0
    /\ outcome = "idle"
    /\ NoQuiz

ProcessLine ==
    /\ pc = "loop"
    /\ idx <= Len(lines)
    /\ LET r == Step(ParserState, lines[idx])
       IN  /\ state' = r.state
           /\ current_q' = r.current_q
           /\ last_opt' = r.last_opt
           /\ questions' = r.questions
    /\ idx' = idx + 1
    /\ UNCHANGED <<lines, pc, keyVars, importVars, quizVars>>

Return ==
    /\ pc = "loop"
    /\ idx > Len(lines)
    /\ questions' = EndOfInput(current_q, questions)
    /\ pc' = "done"
    /\ UNCHANGED <<lines, idx, state, current_q, last_opt, keyVars, importVars,
                   quizVars>>

Next == ProcessLine \/ Return

Spec == Init /\ [][Next]_vars

(***************************************************************************)
(* extract_answer_key on its own: one call on a bounded input              *)
(***************************************************************************)
KeyAlphabet == {"1", "2", "3", "4", "5", "A", "B", "C", "D", "a", "b", "c", "d",
                "x", "(", ")", "FLP", "FRP", ".", " "}

\* the forms the specification's normalization property names
KeyExamples == { <<" ", "FLP", "2", "FRP", " ">>, <<" ", "(", "3", ")", ".", " ">> }

KeyInputs == UNION {[1..n -> KeyAlphabet] : n \in 0..MaxKeyLen} \cup KeyExamples

InitKey ==
    /\ keyIn \in KeyInputs
    /\ keyOut = <<>>
    /\ kpc = "call"
    /\ lines = <<>>
    /\ idx = 1
    /\ state = "SEARCH_Q"
    /\ current_q = None
    /\ last_opt = "None"
    /\ questions = <<>>
    /\ pc = "idle"
    /\ sheet = <<>>
    /\ old_df = <<>>
    /\ new_df = <<>>
    /\ imports = 0
    /\ outcome = "idle"
    /\ NoQuiz

CallExtract ==
    /\ kpc = "call"
    /\ keyOut' = extract_answer_key(keyIn)
    /\ kpc' = "ret"
    /\ UNCHANGED <<keyIn, parserVars, importVars, quizVars>>

NextKey == CallExtract

SpecKey == InitKey /\ [][NextKey]_vars

(***************************************************************************)
(* PDF import mode: parse, load the Questions worksheet, merge, save       *)
(***************************************************************************)
QuestionTexts == {"q1", "q2"}

\* final_df.drop_duplicates(subset=["question"], keep="first")
RECURSIVE drop_duplicates_keep_first(_)
drop_duplicates_keep_first(df) ==
    IF df = <<>> THEN <<>>
    ELSE LET n == Len(df)
             l == df[n]
             t == SubSeq(df, 1, n - 1)
         IN  IF \E k \in 1..Len(t) : t[k].question = l.question
             THEN drop_duplicates_keep_first(t)
             ELSE drop_duplicates_keep_first(t) \o <<l>>

\* final_df.drop_duplicates(subset=["question"], keep="last"): a row is
\* dropped when a later row has the same question text
RECURSIVE drop_duplicates(_)
drop_duplicates(df) ==
    IF df = <<>> THEN <<>>
    ELSE LET h == Head(df)
             t == Tail(df)
         IN  IF \E k \in 1..Len(t) : t[k].question = h.question
             THEN drop_duplicates(t)
             ELSE <<h>> \o drop_duplicates(t)

\* load_data("Questions"): the rows of the worksheet, or an empty frame
\* when the connection or the read fails
load_data(ok) == IF ok THEN sheet ELSE <<>>

\* save_to_google("Questions", df): the worksheet afterwards.  "written":
\* cleared and updated; "not_written": no client, or an exception before
\* ws.clear(); "cleared": an exception between ws.clear() and ws.update()
save_to_google(df, how) ==
    CASE how = "written" -> df
      [] how = "not_written" -> sheet
      [] how = "cleared" -> <<>>

\* the frames parse_exam_pdf can hand to the import: 1..MaxRows questions,
\* texts possibly repeated
ParsedFrames(n) ==
    UNION {[1..m -> {[question |-> t, rev |-> n] : t \in QuestionTexts}]
              : m \in 1..MaxRows}

InitImport ==
    /\ sheet = <<>>
    /\ old_df = <<>>
    /\ new_df = <<>>
    /\ imports = 0
    /\ outcome = "idle"
    /\ lines = <<>>
    /\ idx = 1
    /\ state = "SEARCH_Q"
    /\ current_q = None
    /\ last_opt = "None"
    /\ questions = <<>>
    /\ pc = "idle"
    /\ keyIn = <<>>
    /\ keyOut = <<>>
    /\ kpc = "idle"
    /\ NoQuiz

\* the button handler when the parse returns questions
Import ==
    /\ imports < MaxImports
    /\ \E data \in ParsedFrames(imports + 1), ok \in BOOLEAN,
          how \in {"written", "not_written", "cleared"} :
          /\ new_df' = data
          /\ old_df' = load_data(ok)
          /\ sheet' = save_to_google(drop_duplicates(load_data(ok) \o data), how)
          /\ outcome' = how
    /\ imports' = imports + 1
    /\ UNCHANGED <<parserVars, keyVars, quizVars>>

\* the button handler when the parse returns nothing: an error is shown
ImportNothing ==
    /\ imports < MaxImports
    /\ outcome' = "no_data"
    /\ imports' = imports + 1
    /\ UNCHANGED <<sheet, old_df, new_df, parserVars, keyVars, quizVars>>

NextImport == Import \/ ImportNothing

SpecImport == InitImport /\ [][NextImport]_vars

(***************************************************************************)
(* Mock exam mode: one action per run of the script                        *)
(***************************************************************************)
\* the rows of choice_df: stored answers in the forms the sheet may hold
StoredAnswer(i) == IF i % 2 = 1 THEN <<"A">> ELSE <<"(", "2", ")">>

choice_df == {[question |-> i, correct_answer |-> StoredAnswer(i)] : i \in 1..BankSize}

\* choice_df.sample(n = num): num distinct rows in any order
sample(num) ==
    {q \in [1..num -> choice_df] :
        \A i, j \in 1..num : i # j => q[i] # q[j]}

\* the choices of a radio
opts == {"A", "B", "C", "D"}

\* the rows answered wrongly, in quiz order
RECURSIVE wrong_entries(_, _)
wrong_entries(data, answers) ==
    IF data = <<>> THEN <<>>
    ELSE LET n == Len(data)
             init == wrong_entries(SubSeq(data, 1, n - 1), SubSeq(answers, 1, n - 1))
         IN  IF <<answers[n]>> = extract_answer_key(data[n].correct_answer)
             THEN init ELSE Append(init, data[n])

\* the row written to Results; attempt (the number of the quiz sampled)
\* stands for its ts and username; int(score / total * 100) equals the
\* integer quotient for the totals that BankSize allows
result_row(data, answers, attempt) ==
    LET total == Len(data)
        score == total - Len(wrong_entries(data, answers))
    IN  [attempt |-> attempt, score |-> score, total |-> total,
         percent |-> IF total # 0 THEN (score * 100) \div total ELSE 0,
         wrong_count |-> total - score]

\* append_result: the row is appended, or an error is shown
append_result(rows, row, ok) == IF ok THEN Append(rows, row) ELSE rows

\* the Mistakes sheet after the wrong entries are synchronised
sync_mistakes(wrong, ok, how) ==
    LET merged == drop_duplicates((IF ok THEN mistakes ELSE <<>>) \o wrong)
    IN  IF wrong = <<>> THEN mistakes
        ELSE CASE how = "written" -> merged
               [] how = "not_written" -> mistakes
               [] how = "cleared" -> <<>>

\* the block under "if st.session_state.quiz_submitted"
ScoreAndRecord(answers) ==
    \E ok \in BOOLEAN, how \in {"written", "not_written", "cleared"},
       appended \in BOOLEAN :
        /\ mistakes' = sync_mistakes(wrong_entries(quiz_data, answers), ok, how)
        /\ results' = append_result(results,
                                    result_row(quiz_data, answers, attempts),
                                    appended)

InitQuiz ==
    /\ NoQuiz
    /\ lines = <<>>
    /\ idx = 1
    /\ state = "SEARCH_Q"
    /\ current_q = None
    /\ last_opt = "None"
    /\ questions = <<>>
    /\ pc = "idle"
    /\ keyIn = <<>>
    /\ keyOut = <<>>
    /\ kpc = "idle"
    /\ sheet = <<>>
    /\ old_df = <<>>
    /\ new_df = <<>>
    /\ imports = 0
    /\ outcome = "idle"

\* the start button: a quiz is sampled; the run that follows shows the form
\* with every radio on its first choice
StartQuiz ==
    /\ runs < MaxRuns
    /\ quiz_data = <<>>
    /\ \E num \in 1..BankSize : quiz_data' \in sample(num)
    /\ quiz_submitted' = FALSE
    /\ user_answers' = [i \in 1..Len(quiz_data') |-> "A"]
    /\ attempts' = attempts + 1
    /\ runs' = runs + 1
    /\ UNCHANGED <<results, mistakes, parserVars, keyVars, importVars>>

\* the submit button of the form: the radio values arrive with it
SubmitQuiz ==
    /\ runs < MaxRuns
    /\ quiz_data # <<>>
    /\ \E answers \in [1..Len(quiz_data) -> opts] :
          /\ user_answers' = answers
          /\ ScoreAndRecord(answers)
    /\ quiz_submitted' = TRUE
    /\ runs' = runs + 1
    /\ UNCHANGED <<quiz_data, attempts, parserVars, keyVars, importVars>>

\* a run that no button of the mode caused, with a submitted quiz
Rerun ==
    /\ runs < MaxRuns
    /\ quiz_data # <<>>
    /\ quiz_submitted
    /\ ScoreAndRecord(user_answers)
    /\ runs' = runs + 1
    /\ UNCHANGED <<quiz_data, quiz_submitted, user_answers, attempts,
                   parserVars, keyVars, importVars>>

\* the retest button: the run reaches it after the block above it
Retest ==
    /\ runs < MaxRuns
    /\ quiz_data # <<>>
    /\ quiz_submitted
    /\ ScoreAndRecord(user_answers)
    /\ quiz_data' = <<>>
    /\ quiz_submitted' = FALSE
    /\ user_answers' = <<>>
    /\ runs' = runs + 1
    /\ UNCHANGED <<attempts, parserVars, keyVars, importVars>>

NextQuiz == StartQuiz \/ SubmitQuiz \/ Rerun \/ Retest

SpecQuiz == InitQuiz /\ [][NextQuiz]_vars

(***************************************************************************)
(* Both together: a run is a parse or a call of extract_answer_key         *)
(***************************************************************************)
InitAll == Init \/ InitKey

NextAll == Next \/ NextKey

SpecAll == InitAll /\ [][NextAll]_vars

(***************************************************************************)
(* Properties                                                              *)
(***************************************************************************)
\* needle occurs in hay as a contiguous piece
Contains(hay, needle) ==
    \E k \in 0..(Len(hay) - Len(needle)) :
        SubSeq(hay, k + 1, k + Len(needle)) = needle

TextFields == {"question", "option_A", "option_B", "option_C", "option_D",
               "explanation"}

\* the step emits a question: q is the accumulator before the step, e the
\* record appended to the output
Emits == Len(questions') = Len(questions) + 1

Emitted == questions'[Len(questions')]

\* the line of the current iteration, trimmed
CurLine == strip(lines[idx])

\* a line that, trimmed, is non-empty, no footer, and a question start
CountedStart(raw) ==
    LET t == strip(raw)
        e == SkipClass(t, 1, Digit)
    IN  /\ t # <<>>
        /\ ~ (CharAt(t, 1) = "DI")
        /\ e > 1
        /\ CharAt(t, e) \in {".", " ", "\t"}

StartsIn(ls) == Cardinality({k \in 1..Len(ls) : CountedStart(ls[k])})

\* C1: the number of questions returned equals the number of input lines
\* that (trimmed) are non-empty, not footers and match the question-start
\* pattern; while the loop runs, the questions emitted plus the one in
\* progress are the question starts read so far (each opened question is
\* emitted exactly once, the last at end of input; none when there is none).
C1_CountMatchesStarts ==
    /\ pc = "done" => Len(questions) = StartsIn(lines)
    /\ pc = "loop" =>
          Len(questions) + (IF current_q = None THEN 0 ELSE 1)
              = StartsIn(SubSeq(lines, 1, idx - 1))

C1_Witness ==
    /\ pc = "done"
    /\ Len(lines) = 4
    /\ Len(questions) = 2
    /\ \E k \in 1..4 : lines[k] = LFooter
    /\ \E k \in 1..4 : lines[k] = LText

\* C2: when finalization reclassifies a question as essay (fewer than 3
\* non-empty option slots), every populated option text of the accumulator
\* is found in the emitted explanation, whatever the explanation held before.
C2_EssayKeepsOptionText ==
    [][Emits /\ NonEmptyCount(current_q) < 3 =>
          /\ Emitted.type = "essay"
          /\ \A k \in 1..4 :
                current_q[OptionFields[k]] # <<>> =>
                    Contains(Emitted.explanation, current_q[OptionFields[k]])]_vars

\* C3: within one question, once correct_answer is non-empty no later line
\* of that question changes it.
C3_FirstMatchWins ==
    [][(/\ pc = "loop" /\ pc' = "loop"
        /\ current_q # None
        /\ current_q.correct_answer # <<>>
        /\ Len(questions') = Len(questions))
          => current_q'.correct_answer = current_q.correct_answer]_vars

\* C5: a question finalized with fewer than 3 non-empty option slots is
\* emitted as essay with empty correct_answer and four empty option fields;
\* every other question is emitted as choice with at least 3 non-empty
\* option fields.
C5_EssayReclassification ==
    [][Emits =>
          IF NonEmptyCount(current_q) < 3
          THEN /\ Emitted.type = "essay"
               /\ Emitted.correct_answer = <<>>
               /\ \A k \in 1..4 : Emitted[OptionFields[k]] = <<>>
          ELSE /\ Emitted.type = "choice"
               /\ NonEmptyCount(Emitted) >= 3]_vars

C5_Witness ==
    /\ pc = "done"
    /\ Len(lines) = 4
    /\ Len(questions) = 2
    /\ questions[1].type = "choice"
    /\ questions[1].option_D # <<>>
    /\ questions[2].type = "essay"
    /\ lines[4] = LTagKey1

\* the characters held by the text fields of a question record
TextLen(q) ==
    Len(q.question) + Len(q.option_A) + Len(q.option_B) + Len(q.option_C)
        + Len(q.option_D) + Len(q.explanation)

\* what a line handled for an open question contributes: the text after
\* the tag for an answer-marker line, its option chunks (the one kept per
\* slot) when it is read as an option line, the whole line otherwise
Pieces(line) ==
    IF is_answer_marker(line)
    THEN {after_marker(line)} \ {<<>>}
    ELSE IF state \in {"READING_Q", "READING_OPT"} /\ OptionHits(line) # {}
    THEN {split_options_anywhere(line)[n] : n \in DOMAIN split_options_anywhere(line)}
    ELSE {line}

\* the documented drop: a marker-less line in READING_OPT, no option open
DocumentedDrop(line) ==
    state = "READING_OPT" /\ last_opt = "None" /\ OptionHits(line) = {}

\* C4: round trip.  Read in the way most favourable to the claim (lines
\* before the first question, the answer tag itself and a chunk replaced by
\* a later marker of the same slot are not counted as lost): every
\* non-empty, non-footer line read for a question is put, when it is read,
\* into one text field of that question (or is the documented drop), a line
\* adds no more than its own characters and one separator, and everything a
\* question holds when it is finalized is found in the emitted Question.
C4_RoundTrip ==
    [][/\ (/\ pc = "loop" /\ pc' = "loop"
           /\ CurLine # <<>>
           /\ ~ is_footer(CurLine)
           /\ current_q' # None)
          => /\ \/ DocumentedDrop(CurLine)
                \/ \A p \in Pieces(CurLine) :
                      \E f \in TextFields : Contains(current_q'[f], p)
             /\ TextLen(current_q')
                   <= (IF Emits \/ current_q = None THEN 0 ELSE TextLen(current_q))
                        + Len(CurLine) + 1
       /\ Emits
          => /\ \A f \in TextFields :
                   current_q[f] # <<>> =>
                       \E g \in TextFields : Contains(Emitted[g], current_q[f])
             /\ TextLen(Emitted) <= TextLen(current_q) + 3]_vars

\* what Scenario A yields but for its explanation
ScenarioA_Question(expl) ==
    [question |-> ScenarioA[1],
     option_A |-> <<"(", "1", ")", "A">>, option_B |-> <<"(", "2", ")", "B">>,
     option_C |-> <<"(", "3", ")", "C">>, option_D |-> <<"(", "4", ")", "D">>,
     correct_answer |-> <<"B">>, explanation |-> expl, topic |-> <<>>,
     type |-> "choice"]

\* C6 as stated: Scenario A yields exactly one Question, with the stem, the
\* four options, option 2's key, and the explanation "JIE XI NEI RONG\n"
\* alone (the answer-key text after the tag is not part of it).
C6_ScenarioA_AsStated ==
    pc = "done" /\ lines = ScenarioA =>
        questions = << ScenarioA_Question(ScenarioA[7] \o <<"\n">>) >>

\* C6 amended: Scenario A yields exactly one Question, with the stem, the
\* four options, option 2's key, and the explanation "(2)\nJIE XI NEI RONG\n":
\* the text that followed the tag is the explanation's first line.
C6_ScenarioA ==
    pc = "done" /\ lines = ScenarioA =>
        questions = << ScenarioA_Question(<<"(", "2", ")", "\n">> \o ScenarioA[7]
                                              \o <<"\n">>) >>

C6_Witness == pc = "done" /\ lines = ScenarioA /\ Len(questions) = 1

\* the step reads CurLine in option context: a question is open, the line
\* is no blank, footer, question start or answer marker, the state is
\* READING_Q or READING_OPT and the line carries an option marker
OptionContext ==
    /\ pc = "loop" /\ pc' = "loop"
    /\ current_q # None
    /\ state \in {"READING_Q", "READING_OPT"}
    /\ CurLine # <<>>
    /\ CharAt(CurLine, 1) \notin (Digit \cup {"DI"})
    /\ \A k \in 1..Len(CurLine) : CurLine[k] # "JIE"
    /\ OptionHits(CurLine) # {}

\* the marker at position k of line, its chunk (to the next marker or to
\* the end of the line, trimmed) and the slot it names
MarkerAt(line, k) ==
    /\ CharAt(line, k) \in {"(", "FLP"}
    /\ CharAt(line, k + 1) \in {"1", "2", "3", "4"}
    /\ CharAt(line, k + 2) \in {")", "FRP"}

ChunkAt(line, k) ==
    LET nxt == {j \in (k + 1)..Len(line) : MarkerAt(line, j)}
    IN  strip(SubSeq(line, k, IF nxt = {} THEN Len(line) ELSE SetMin(nxt) - 1))

SlotOf(d) ==
    CASE d = "1" -> "option_A" [] d = "2" -> "option_B"
      [] d = "3" -> "option_C" [] d = "4" -> "option_D"

\* C7 as stated: on a line handled in option context, the chunk of every
\* marker occurrence is stored in the slot its marker names.
C7_EveryChunkStored ==
    [][OptionContext =>
          \A k \in 1..Len(CurLine) :
              MarkerAt(CurLine, k) =>
                  current_q'[SlotOf(CurLine[k + 1])] = ChunkAt(CurLine, k)]_vars

\* C7 amended: on a line handled in option context, for every marker
\* occurrence that is the last one of its number on the line, the chunk from
\* that marker to the start of the next marker (the last chunk to the end of
\* the line), trimmed, is stored in the slot the marker names and begins
\* with the marker's own text; the chunk of an earlier occurrence of the
\* same number is replaced.  The packed line (1)A (2)B (3)C (4)D fills four
\* distinct non-empty values.
C7_LastChunkStored ==
    [][OptionContext =>
          /\ \A k \in 1..Len(CurLine) :
                (/\ MarkerAt(CurLine, k)
                 /\ \A j \in (k + 1)..Len(CurLine) :
                       MarkerAt(CurLine, j) => CurLine[j + 1] # CurLine[k + 1])
                  => /\ current_q'[SlotOf(CurLine[k + 1])] = ChunkAt(CurLine, k)
                     /\ SubSeq(ChunkAt(CurLine, k), 1, 3) = SubSeq(CurLine, k, k + 2)
          /\ CurLine = LPacked =>
                Cardinality({current_q'[OptionFields[k]] : k \in 1..4} \ {<<>>}) = 4]_vars

C7_Witness ==
    /\ pc = "loop"
    /\ idx > 1
    /\ lines[idx - 1] = LDup
    /\ state = "READING_OPT"
    /\ current_q # None
    /\ current_q.option_A = <<"FLP", "1", "FRP", "B">>

\* C8: a footer line, in any parser state, leaves state, current question,
\* last open option and output unchanged, and the footer's text is in no
\* field of any emitted Question.
C8_FooterIgnored ==
    [][/\ (pc = "loop" /\ idx <= Len(lines) /\ lines[idx] = LFooter)
          => UNCHANGED <<state, current_q, last_opt, questions>>
       /\ \A k \in 1..Len(questions') :
             \A f \in TextFields :
                 ~ Contains(questions'[k][f], <<"YE", "/", "GONG">>)]_vars

C8_Witness ==
    /\ pc = "done"
    /\ Len(lines) = 4
    /\ lines[1] = LQ /\ lines[2] = LPacked /\ lines[3] = LFooter
    /\ lines[4] = LText
    /\ questions[1].option_D = <<"(", "4", ")", "D", " ", "x">>

\* the characters that name option n: its digit, its letter in either case
KeyCharsOf(n) ==
    CASE n = 1 -> {"1", "A", "a"} [] n = 2 -> {"2", "B", "b"}
      [] n = 3 -> {"3", "C", "c"} [] n = 4 -> {"4", "D", "d"}

\* s is an accepted answer-key form of option n: one key character,
\* optionally wrapped in half-width or full-width parentheses, optionally
\* followed by a full stop, with optional white space around it
AcceptedFormOf(s, n) ==
    LET t == strip(s)
        u == IF Len(t) > 1 /\ t[Len(t)] = "." THEN SubSeq(t, 1, Len(t) - 1) ELSE t
    IN  \/ Len(u) = 1 /\ u[1] \in KeyCharsOf(n)
        \/ /\ Len(u) = 3
           /\ u[1] \in {"(", "FLP"}
           /\ u[2] \in KeyCharsOf(n)
           /\ u[3] \in {")", "FRP"}

\* C9: for every input that is not an accepted answer-key form,
\* extract_answer_key returns the empty string.
C9_UnacceptedGivesEmpty ==
    (kpc = "ret" /\ \A n \in 1..4 : ~ AcceptedFormOf(keyIn, n)) => keyOut = <<>>

\* C10: every accepted form of option n (digit, parenthesized in either
\* width, with white space around, letter in either case) normalizes to one
\* and the same non-empty value, that of the bare digit n.
C10_FormsAgree ==
    kpc = "ret" =>
        \A n \in 1..4 :
            AcceptedFormOf(keyIn, n) =>
                /\ keyOut # <<>>
                /\ keyOut = extract_answer_key(<<CHOOSE d \in OptDigit : d \in KeyCharsOf(n)>>)

C10_Witness ==
    /\ kpc = "ret"
    /\ keyIn = <<" ", "FLP", "2", "FRP", " ">>
    /\ keyOut = <<"B">>

AnswerKeys == {<<>>, <<"A">>, <<"B">>, <<"C">>, <<"D">>}

\* C11: the answer key alphabet is never mixed: extract_answer_key returns
\* only the empty string or one of A, B, C, D, and in every parser state
\* and every emitted Question correct_answer is one of these.
C11_KeyAlphabet ==
    /\ kpc = "ret" => keyOut \in AnswerKeys
    /\ current_q # None => current_q.correct_answer \in AnswerKeys
    /\ \A k \in 1..Len(questions) : questions[k].correct_answer \in AnswerKeys

C11_Witness ==
    /\ pc = "done"
    /\ Len(questions) = 1
    /\ questions[1].type = "choice"
    /\ questions[1].correct_answer = <<"B">>
    /\ lines[Len(lines)] = LKey

\* the position in ls of its i-th question-start line
NthStart(ls, i) ==
    CHOOSE k \in 1..Len(ls) :
        /\ CountedStart(ls[k])
        /\ Cardinality({j \in 1..k : CountedStart(ls[j])}) = i

\* the positions of the lines of the i-th question block: from its
\* question-start line to the line before the next one (or the last line)
Block(ls, i) ==
    {k \in NthStart(ls, i)..Len(ls) :
        \A j \in (NthStart(ls, i) + 1)..k : ~ CountedStart(ls[j])}

IsPrefix(a, b) == Len(a) <= Len(b) /\ SubSeq(b, 1, Len(a)) = a

\* C12: every emitted Question has a non-empty questionText, and the i-th
\* emitted Question's questionText begins with the i-th question-start line
\* of the input (trimmed): the output is in source order.
C12_TextAndOrder ==
    \A i \in 1..Len(questions) :
        /\ questions[i].question # <<>>
        /\ IsPrefix(strip(lines[NthStart(lines, i)]), questions[i].question)

C12_Witness ==
    /\ pc = "done"
    /\ lines = <<LQ, LText, LQ2>>
    /\ Len(questions) = 2
    /\ questions[1].question = <<"1", ".", "Q", " ", "x">>
    /\ questions[2].question = LQ2

\* text begins with the marker of slot k (either width of parentheses)
BeginsWithMarker(text, k) ==
    /\ Len(text) >= 3
    /\ text[1] \in {"(", "FLP"}
    /\ text[2] = <<"1", "2", "3", "4">>[k]
    /\ text[3] \in {")", "FRP"}

OptionsKeepMarker(q) ==
    \A k \in 1..4 :
        q[OptionFields[k]] # <<>> => BeginsWithMarker(q[OptionFields[k]], k)

\* C13: in every parser state and in every emitted Question, each non-empty
\* option field begins with the option marker of its own slot.
C13_OptionsKeepMarker ==
    /\ current_q # None => OptionsKeepMarker(current_q)
    /\ \A i \in 1..Len(questions) : OptionsKeepMarker(questions[i])

C13_Witness ==
    /\ pc = "done"
    /\ Len(questions) = 1
    /\ questions[1].type = "choice"
    /\ questions[1].option_A = <<"FLP", "1", "FRP", "B">>
    /\ questions[1].option_D = <<"(", "4", ")", "D", " ", "x">>

\* the line carries an answer tag: [JIE], [JIE:] or [JIE FCOLON]
HasAnswerTag(raw) ==
    \E k \in 1..Len(raw) :
        /\ raw[k] = "["
        /\ CharAt(raw, k + 1) = "JIE"
        /\ \/ CharAt(raw, k + 2) = "]"
           \/ CharAt(raw, k + 2) \in {":", "FCOLON"} /\ CharAt(raw, k + 3) = "]"

\* C14: a question block none of whose lines carries an answer tag is
\* still emitted, and its correct_answer is the empty string.
C14_NoTagNoAnswer ==
    pc = "done" =>
        \A i \in 1..StartsIn(lines) :
            (\A k \in Block(lines, i) : ~ HasAnswerTag(lines[k]))
                => /\ i <= Len(questions)
                   /\ questions[i].question # <<>>
                   /\ questions[i].correct_answer = <<>>

C14_Witness ==
    /\ pc = "done"
    /\ lines = <<LQ, LPacked, LKey>>
    /\ Len(questions) = 1
    /\ questions[1].type = "choice"
    /\ questions[1].correct_answer = <<>>

OneRowPerText(df) ==
    \A i, j \in 1..Len(df) : df[i].question = df[j].question => i = j

\* for every question text of the new frame, the worksheet's row of that
\* text is the new frame's (its last row of that text)
NewParseWins ==
    \A k \in 1..Len(new_df) :
        (\A j \in (k + 1)..Len(new_df) : new_df[j].question # new_df[k].question)
            => \E i \in 1..Len(sheet) : sheet[i] = new_df[k]

ImportDone == outcome \in {"written", "not_written", "cleared"}

ReadsLine ==
    /\ pc = "loop" /\ pc' = "loop"
    /\ CurLine # <<>>
    /\ ~ is_footer(CurLine)

\* C16 as stated: in WAITING_FOR_ANS the very next non-empty, non-footer
\* line, whatever its content, is consumed as the answer line: appended
\* verbatim to explanation, correct_answer set if the line normalizes to a
\* key, parser left in READING_EXPL.
C16_AnyLineIsAnswerLine ==
    [][(ReadsLine /\ state = "WAITING_FOR_ANS") =>
          /\ state' = "READING_EXPL"
          /\ current_q'.explanation = current_q.explanation \o CurLine \o <<"\n">>
          /\ extract_answer_key(CurLine) # <<>> =>
                current_q'.correct_answer = extract_answer_key(CurLine)]_vars

\* C16 amended: in WAITING_FOR_ANS the very next non-empty, non-footer line
\* that is neither a question start nor an answer-marker line is consumed
\* as the answer line: it is appended (trimmed, with a newline) to
\* explanation, sets correct_answer if it normalizes to a key and
\* correct_answer is still empty, and leaves the parser in READING_EXPL.  A
\* question-start line starts a new question instead, and an answer-marker
\* line is handled as a marker: with no text after the tag the parser stays
\* in WAITING_FOR_ANS.
C16_AnswerLine ==
    [][(ReadsLine /\ state = "WAITING_FOR_ANS") =>
          IF is_question_start(CurLine)
          THEN state' = "READING_Q" /\ current_q'.explanation = <<>>
          ELSE IF HasAnswerTag(CurLine)
          THEN state' = (IF after_marker(CurLine) = <<>>
                         THEN "WAITING_FOR_ANS" ELSE "READING_EXPL")
          ELSE /\ state' = "READING_EXPL"
               /\ current_q'.explanation
                     = current_q.explanation \o CurLine \o <<"\n">>
               /\ current_q'.correct_answer
                     = (IF current_q.correct_answer = <<>>
                        THEN extract_answer_key(CurLine)
                        ELSE current_q.correct_answer)
               /\ questions' = questions]_vars

C16_Witness ==
    /\ pc = "loop"
    /\ lines = ScenarioB
    /\ idx = 5
    /\ state = "READING_EXPL"
    /\ current_q.correct_answer = <<"C">>
    /\ current_q.explanation = <<"(", "3", ")", "\n">>

\* the record of a question that has only its first line
FreshQuestion(line) ==
    [question |-> line, option_A |-> <<>>, option_B |-> <<>>,
     option_C |-> <<>>, option_D |-> <<>>, correct_answer |-> <<>>,
     explanation |-> <<>>, topic |-> <<>>, type |-> "choice"]

\* C17: a line that matches the question-start pattern starts a new
\* question in every parser state, also when the line contains option
\* markers or an answer tag: the current question (if any) is finalized and
\* emitted, the new question has the whole line as its text and every other
\* field empty, and nothing of the line reaches options, correct_answer or
\* explanation.
C17_QuestionStartWins ==
    [][(pc = "loop" /\ pc' = "loop" /\ CountedStart(lines[idx])) =>
          /\ current_q' = FreshQuestion(CurLine)
          /\ state' = "READING_Q"
          /\ last_opt' = "None"
          /\ questions' = (IF current_q = None THEN questions
                           ELSE Append(questions, finalize_question(current_q)))]_vars

\* the question start that also carries an option marker and an answer tag
\* has been read while another question was in its explanation
C17_Witness ==
    /\ pc = "loop"
    /\ idx = 4
    /\ lines[1] = LQ
    /\ lines[2] = LTagKey1
    /\ lines[3] = LQ2
    /\ current_q = FreshQuestion(LQ2)
    /\ state = "READING_Q"
    /\ Len(questions) = 1
    /\ questions[1].question = LQ
    /\ questions[1].explanation = <<"(", "1", ")", "\n">>

\* the step reads a line that carries an answer tag and is no question start
ReadsTagLine ==
    /\ pc = "loop" /\ pc' = "loop"
    /\ HasAnswerTag(CurLine)
    /\ ~ is_question_start(CurLine)

\* what the handling of an answer marker does to state and explanation
HandledAsMarker ==
    LET after == after_marker(CurLine)
    IN  /\ questions' = questions
        /\ IF after # <<>>
           THEN /\ state' = "READING_EXPL"
                /\ current_q'.explanation
                      = current_q.explanation \o after \o <<"\n">>
           ELSE /\ state' = "WAITING_FOR_ANS"
                /\ current_q'.explanation = current_q.explanation

\* C18 as stated: whenever a question is open, a non-question-start line
\* containing an answer tag is handled as an answer marker in every state;
\* before the first question-start line it has no effect.
C18_TagLineAsStated ==
    [][ReadsTagLine =>
          IF current_q = None
          THEN UNCHANGED <<current_q, state, last_opt, questions>>
          ELSE HandledAsMarker]_vars

\* C18 amended: whenever a question is open, a non-footer,
\* non-question-start line containing an answer tag is handled as an answer
\* marker in every state (READING_Q, READING_OPT, WAITING_FOR_ANS,
\* READING_EXPL): with non-empty text after the tag the parser moves to
\* READING_EXPL and that text is appended to explanation, with none it
\* moves to WAITING_FOR_ANS; a footer line that contains a tag is skipped,
\* and before the first question-start line a tag line has no effect.
C18_TagLine ==
    [][ReadsTagLine =>
          IF current_q = None \/ is_footer(CurLine)
          THEN UNCHANGED <<current_q, state, last_opt, questions>>
          ELSE HandledAsMarker]_vars

\* a tag line has been handled in READING_EXPL
C18_Witness ==
    /\ pc = "loop"
    /\ idx = 4
    /\ lines[1] = LQ
    /\ lines[2] = LTagKey1
    /\ lines[3] = LTagText
    /\ state = "READING_EXPL"
    /\ current_q.explanation = <<"(", "1", ")", "\n", "z", "\n">>

\* the open question has reached READING_EXPL: explanation only grows on
\* the way into READING_EXPL and inside it
ReachedExpl ==
    /\ current_q # None
    /\ state = "READING_EXPL" \/ current_q.explanation # <<>>

\* C19 as stated: once a question has reached READING_EXPL, every
\* subsequent non-empty, non-footer line up to the next question-start line
\* is appended to its explanation followed by a newline, and while
\* correct_answer is still empty each such line is tried as an answer key.
C19_EveryLineAppended ==
    [][(ReadsLine /\ ReachedExpl /\ ~ is_question_start(CurLine)) =>
          /\ current_q'.explanation
                = current_q.explanation \o CurLine \o <<"\n">>
          /\ current_q.correct_answer = <<>> =>
                current_q'.correct_answer = extract_answer_key(CurLine)]_vars

\* C19 amended: once a question has reached READING_EXPL, every subsequent
\* non-empty, non-footer line up to the next question-start line that
\* contains no answer tag is appended to its explanation followed by a
\* newline, and is tried as an answer key exactly while correct_answer is
\* still empty; of a line that contains an answer tag only the text after
\* the tag is appended (nothing when there is none).
C19_ExplanationLines ==
    [][(ReadsLine /\ ReachedExpl /\ ~ is_question_start(CurLine)) =>
          IF HasAnswerTag(CurLine)
          THEN current_q'.explanation
                  = current_q.explanation \o
                       (IF after_marker(CurLine) = <<>> THEN <<>>
                        ELSE after_marker(CurLine) \o <<"\n">>)
          ELSE /\ current_q'.explanation
                     = current_q.explanation \o CurLine \o <<"\n">>
               /\ current_q'.correct_answer
                     = (IF current_q.correct_answer = <<>>
                        THEN extract_answer_key(CurLine)
                        ELSE current_q.correct_answer)
               /\ state' = "READING_EXPL"]_vars

\* late recovery: the key is found on the second explanation line
C19_Witness ==
    /\ pc = "loop"
    /\ idx = 5
    /\ lines = <<LQ, LTag, LText, LKey>>
    /\ state = "READING_EXPL"
    /\ current_q.correct_answer = <<"B">>
    /\ current_q.explanation = <<"x", "\n", "2", "\n">>

\* a line handled as an option line: no blank, footer, question start or
\* tag line, and it carries an option marker
MarkerBearing(raw) ==
    LET t == strip(raw)
    IN  /\ t # <<>>
        /\ ~ is_footer(t)
        /\ ~ is_question_start(t)
        /\ ~ HasAnswerTag(t)
        /\ \E k \in 1..Len(t) : MarkerAt(t, k)

\* the slot named by the right-most marker of the latest marker-bearing
\* line before line i
RightMostSlot(i) ==
    LET j == SetMax({m \in 1..(i - 1) : MarkerBearing(lines[m])})
        t == strip(lines[j])
        k == SetMax({n \in 1..Len(t) : MarkerAt(t, n)})
    IN  SlotOf(t[k + 1])

\* the step reads, in READING_OPT, a line without option marker
ReadsContinuation ==
    /\ ReadsLine
    /\ current_q # None
    /\ state = "READING_OPT"
    /\ ~ is_question_start(CurLine)
    /\ ~ HasAnswerTag(CurLine)
    /\ \A k \in 1..Len(CurLine) : ~ MarkerAt(CurLine, k)

\* C20: in READING_OPT a line with no option marker is appended,
\* space-joined, to the option whose marker was the last to occur in the
\* input so far (the right-most marker of the latest marker-bearing line),
\* also when the markers were out of numeric order; no other option field
\* changes.
C20_ContinuationOfLastMarker ==
    [][ReadsContinuation =>
          LET f == RightMostSlot(idx)
          IN  current_q' = [current_q EXCEPT
                               ![f] = strip(current_q[f] \o <<" ">> \o CurLine)]]_vars

\* the step reads, in READING_OPT, a line that reaches the option branch:
\* no blank, footer, question start or answer-tag line
ReadsInOpt ==
    /\ ReadsLine
    /\ current_q # None
    /\ state = "READING_OPT"
    /\ ~ is_question_start(CurLine)
    /\ ~ HasAnswerTag(CurLine)

\* the positions of the markers of line that name slot digit d
MarkersOf(line, d) == {k \in 1..Len(line) : MarkerAt(line, k) /\ line[k + 1] = d}

\* C21: in READING_OPT a line that carries a marker for slot n replaces the
\* whole previous value of slot n, text of earlier continuation lines
\* included, and leaves the slots it does not name unchanged; a marker-less
\* continuation line only appends to one slot and replaces no value.
C21_OverwriteVersusAppend ==
    [][ReadsInOpt =>
          IF \E k \in 1..Len(CurLine) : MarkerAt(CurLine, k)
          THEN \A d \in {"1", "2", "3", "4"} :
                  current_q'[SlotOf(d)] =
                     (IF MarkersOf(CurLine, d) # {}
                      THEN ChunkAt(CurLine, SetMax(MarkersOf(CurLine, d)))
                      ELSE current_q[SlotOf(d)])
          ELSE \E f \in {"option_A", "option_B", "option_C", "option_D"} :
                  /\ current_q' = [current_q EXCEPT
                                      ![f] = current_q[f] \o <<" ">> \o CurLine]
                  /\ current_q[f] # <<>>]_vars

\* option 1 had taken a continuation line and was then replaced by a new
\* marker line
C21_Witness ==
    /\ pc = "loop"
    /\ idx = 5
    /\ lines = <<LQ, LDup, LText, LDup>>
    /\ state = "READING_OPT"
    /\ current_q.option_A = <<"FLP", "1", "FRP", "B">>

\* the step reads, in READING_Q, a line that is no blank, footer, question
\* start or answer-marker line
ReadsInStem ==
    /\ ReadsLine
    /\ current_q # None
    /\ state = "READING_Q"
    /\ ~ is_question_start(CurLine)
    /\ ~ HasAnswerTag(CurLine)

\* C22: in READING_Q a line with no option marker is appended to
\* questionText, joined by a single space, and the state stays READING_Q;
\* the first line with at least one option marker moves the parser to
\* READING_OPT, is processed as an option line in the same step, and is not
\* added to questionText.
C22_StemThenOptions ==
    [][ReadsInStem =>
          IF \E k \in 1..Len(CurLine) : MarkerAt(CurLine, k)
          THEN /\ state' = "READING_OPT"
               /\ current_q'.question = current_q.question
               /\ \A d \in {"1", "2", "3", "4"} :
                     current_q'[SlotOf(d)] =
                        (IF MarkersOf(CurLine, d) # {}
                         THEN ChunkAt(CurLine, SetMax(MarkersOf(CurLine, d)))
                         ELSE <<>>)
               /\ last_opt' # "None"
          ELSE /\ state' = "READING_Q"
               /\ current_q' = [current_q EXCEPT
                                   !.question = current_q.question \o <<" ">> \o CurLine]]_vars

\* a second stem line, then a line with a single marker
C22_Witness ==
    /\ pc = "loop"
    /\ idx = 4
    /\ lines = <<LQ, LText, LSingle>>
    /\ state = "READING_OPT"
    /\ current_q.question = <<"1", ".", "Q", " ", "x">>
    /\ current_q.option_C = LSingle
    /\ last_opt = "option_C"

\* C23: whenever the parser is in READING_OPT an option is open (last_opt
\* names a slot whose text is non-empty), so a marker-less line read in
\* READING_OPT is never dropped: it is appended to the open option.
C23_OptionOpenInReadingOpt ==
    [][(pc = "loop" /\ state = "READING_OPT") =>
          /\ current_q # None
          /\ last_opt \in {"option_A", "option_B", "option_C", "option_D"}
          /\ current_q[last_opt] # <<>>
          /\ ReadsContinuation =>
                /\ current_q'[last_opt]
                      = current_q[last_opt] \o <<" ">> \o CurLine
                /\ state' = "READING_OPT"
                /\ last_opt' = last_opt]_vars

\* a marker-less line has been read in READING_OPT
C23_Witness ==
    /\ pc = "loop"
    /\ idx = 4
    /\ lines = <<LQ, LPacked, LText>>
    /\ state = "READING_OPT"
    /\ last_opt = "option_D"
    /\ current_q.option_D = <<"(", "4", ")", "D", " ", "x">>

\* the stage of a parser state within one question
Stage(s) ==
    CASE s = "SEARCH_Q" -> 0
      [] s = "READING_Q" -> 1
      [] s = "READING_OPT" -> 2
      [] s \in {"WAITING_FOR_ANS", "READING_EXPL"} -> 3

\* C24: within one question the parser state only moves forward: a line
\* handled as answer marker puts the state in WAITING_FOR_ANS or
\* READING_EXPL, from there until the next question-start line the state
\* stays one of the two, questionText and the four option fields are not
\* modified (a line with option markers goes to explanation), and SEARCH_Q
\* is never re-entered after the first question start.
C24_ForwardOnly ==
    [][(pc = "loop" /\ pc' = "loop") =>
          /\ state = "SEARCH_Q" <=> current_q = None
          /\ state' = "SEARCH_Q" => state = "SEARCH_Q"
          /\ (ReadsTagLine /\ current_q # None /\ ~ is_footer(CurLine)) =>
                Stage(state') = 3
          /\ ~ CountedStart(lines[idx]) =>
                /\ Stage(state') >= Stage(state)
                /\ questions' = questions
                /\ Stage(state) = 3 =>
                      /\ Stage(state') = 3
                      /\ \A f \in {"question", "option_A", "option_B",
                                   "option_C", "option_D"} :
                            current_q'[f] = current_q[f]
                      /\ (ReadsLine /\ ~ HasAnswerTag(CurLine)) =>
                            current_q'.explanation
                               = current_q.explanation \o CurLine \o <<"\n">>]_vars

\* a line of four option markers has been read after the answer marker
C24_Witness ==
    /\ pc = "loop"
    /\ idx = 5
    /\ lines = <<LQ, LPacked, LTagKey2, LPacked>>
    /\ state = "READING_EXPL"
    /\ current_q.option_A = <<"(", "1", ")", "A">>
    /\ current_q.explanation = <<"(", "2", ")", "\n">> \o LPacked \o <<"\n">>

\* the option field that an answer key names
SlotOfKey(k) ==
    CASE k = "A" -> "option_A" [] k = "B" -> "option_B"
      [] k = "C" -> "option_C" [] k = "D" -> "option_D"

\* C25: every emitted Question of type choice whose correct_answer is
\* non-empty has a non-empty option field in the slot that correct_answer
\* names.
C25_AnswerNamesFilledOption ==
    \A i \in 1..Len(questions) :
        (questions[i].type = "choice" /\ questions[i].correct_answer # <<>>) =>
            questions[i][SlotOfKey(questions[i].correct_answer[1])] # <<>>

\* the step is an import whose parse returned questions
ImportsData == imports' = imports + 1 /\ outcome' # "no_data"

\* C26: a PDF import never removes from the Questions store a previously
\* stored question whose text does not occur in the newly parsed set,
\* whether load_data succeeds or fails and returns an empty frame, and
\* whatever save_to_google then does.
C26_ImportKeepsOtherQuestions ==
    [][ImportsData =>
          \A k \in 1..Len(sheet) :
              (\A j \in 1..Len(new_df') : new_df'[j].question # sheet[k].question)
                 => \E m \in 1..Len(sheet') : sheet'[m] = sheet[k]]_vars

\* the rows of Results written for the quiz in progress
RowsOfAttempt == {k \in 1..Len(results) : results[k].attempt = attempts}

\* C27: for one mock exam attempt, from the sampling of quiz_data until it
\* is reset to None, exactly one row is appended to Results, over every
\* sequence of script runs that can occur while quiz_submitted is true,
\* the run caused by the retest button included.
C27_OneRowPerAttempt ==
    [][(quiz_data # <<>> /\ quiz_data' = <<>>) =>
          Cardinality({k \in 1..Len(results') : results'[k].attempt = attempts}) = 1]_vars

====
